---- MODULE Spec2Model ----
(***************************************************************************)
(* Multi-Video In-Out Extractor (src/inout_extractorUI.py).                *)
(*                                                                         *)
(* State machine of the VideoExtractor window: the tracked path list, the  *)
(* UI rows with their six time selectors, the focused-combo pointer used   *)
(* by the quick-insert buttons, and the position of the running handler    *)
(* (add_videos / extract_video / extract_all_videos / play_video) between  *)
(* its blocking calls: the file dialog, subprocess.run and the modal       *)
(* QMessageBox dialogs.                                                    *)
(*                                                                         *)
(* Text is a sequence of one-character strings.  The token "film" stands   *)
(* for the film-projector character the row label starts with.             *)
(***************************************************************************)
EXTENDS Integers, Sequences, FiniteSets, TLC

VARIABLES video_list, rows, current_combo, pc, handler, index, log, opened, edits

vars == <<video_list, rows, current_combo, pc, handler, index, log, opened, edits>>

(***************************************************************************)
(* Bounds of the model.                                                    *)
(***************************************************************************)
MaxVideos == 2
MaxEdits == 1
MaxPick == 2

(***************************************************************************)
(* Text helpers.                                                           *)
(***************************************************************************)
DigitChars == <<"0", "1", "2", "3", "4", "5", "6", "7", "8", "9">>

IsDigit(c) == \E i \in 1..10 : DigitChars[i] = c

DigitVal(c) == (CHOOSE i \in 1..10 : DigitChars[i] = c) - 1

RECURSIVE NatStr(_)
NatStr(n) == IF n < 10 THEN <<DigitChars[n + 1]>>
             ELSE NatStr(n \div 10) \o <<DigitChars[(n % 10) + 1]>>

\* str(i) of a Python int
Str(n) == IF n < 0 THEN <<"-">> \o NatStr(0 - n) ELSE NatStr(n)

\* f"{i:02d}" for i >= 0
TwoDigit(i) == IF i < 10 THEN <<"0">> \o NatStr(i) ELSE NatStr(i)

Drop(s, k) == SubSeq(s, k + 1, Len(s))

IsPrefix(p, s) == Len(p) <= Len(s) /\ SubSeq(s, 1, Len(p)) = p

\* str.replace(old, new): non-overlapping occurrences, left to right
RECURSIVE Replace(_, _, _)
Replace(s, old, new) ==
    IF s = <<>> THEN <<>>
    ELSE IF IsPrefix(old, s) THEN new \o Replace(Drop(s, Len(old)), old, new)
    ELSE <<Head(s)>> \o Replace(Tail(s), old, new)

\* os.path.basename: what follows the last "/"
RECURSIVE Basename(_)
Basename(p) == IF \E i \in 1..Len(p) : p[i] = "/"
               THEN Basename(Tail(p))
               ELSE p

(***************************************************************************)
(* int(val) of Python on the characters the model uses: surrounding        *)
(* blanks are stripped, one sign is allowed, digits may be grouped by      *)
(* single underscores; anything else raises ValueError.                    *)
(***************************************************************************)
RECURSIVE LStrip(_)
LStrip(s) == IF s # <<>> /\ Head(s) = " " THEN LStrip(Tail(s)) ELSE s

RECURSIVE RStrip(_)
RStrip(s) == IF s # <<>> /\ s[Len(s)] = " " THEN RStrip(SubSeq(s, 1, Len(s) - 1)) ELSE s

Strip(s) == RStrip(LStrip(s))

WellFormedDigits(d) ==
    /\ d # <<>>
    /\ IsDigit(d[1])
    /\ IsDigit(d[Len(d)])
    /\ \A i \in 1..Len(d) : IsDigit(d[i]) \/ d[i] = "_"
    /\ \A i \in 1..(Len(d) - 1) : ~(d[i] = "_" /\ d[i + 1] = "_")

RECURSIVE DigitsValue(_, _)
DigitsValue(d, acc) ==
    IF d = <<>> THEN acc
    ELSE IF Head(d) = "_" THEN DigitsValue(Tail(d), acc)
    ELSE DigitsValue(Tail(d), acc * 10 + DigitVal(Head(d)))

PyInt(val) ==
    LET s == Strip(val)
        signed == s # <<>> /\ s[1] \in {"+", "-"}
        d == IF signed THEN Tail(s) ELSE s
        mag == DigitsValue(d, 0)
    IN IF WellFormedDigits(d)
       THEN [raised |-> FALSE, val |-> IF signed /\ s[1] = "-" THEN 0 - mag ELSE mag]
       ELSE [raised |-> TRUE, val |-> 0]

\* safe_int: the bare except turns every failure of int() into 0
safe_int(val) == IF PyInt(val).raised THEN 0 ELSE PyInt(val).val

\* variant: the hour weighted like a minute
get_selected_time_HourAsMinute(hour_combo, minute_combo, second_combo) ==
    safe_int(hour_combo) * 60 + safe_int(minute_combo) * 60 + safe_int(second_combo)

get_selected_time(hour_combo, minute_combo, second_combo) ==
    LET h == safe_int(hour_combo)
        m == safe_int(minute_combo)
        s == safe_int(second_combo)
    IN h * 3600 + m * 60 + s

(***************************************************************************)
(* Widgets.                                                                *)
(***************************************************************************)
None == <<"None">>

OUTPUT_FOLDER == <<".", "/", "o", "u", "t", "p", "u", "t">>

FilmPrefix == <<"film", " ">>

Fields == {"in_hour", "in_min", "in_sec", "out_hour", "out_min", "out_sec"}

\* the items add_video_ui puts into time_layout, in order (itemAt is 0-based)
TimeLayout == <<"in_label", "in_hour", "colon", "in_min", "colon", "in_sec",
                "spacing",
                "out_label", "out_hour", "colon", "out_min", "colon", "out_sec">>

itemAt(k) == TimeLayout[k + 1]

\* FocusComboBox.min_val / max_val as create_time_wheels passes them
min_val(f) == 0

max_val(f) == IF f \in {"in_hour", "out_hour"} THEN 23 ELSE 59

\* addItems([f"{i:02d}" for i in range(n)]): the text of list item i
ItemText(f, i) == TwoDigit(i)

ItemCount(f) == max_val(f) + 1

\* a new combo shows its first item
create_time_wheels == [f \in Fields |-> ItemText(f, 0)]

\* the group separator of the locale, as the C and the English locale write it
GroupSeparator == ","

\* QLocaleData::validateChars in integer mode: digits, a sign only as the first
\* character, a group separator only straight after a digit; buff is the text
\* without its group separators
validateChars(text) ==
    [ok |-> \A i \in 1..Len(text) :
               \/ IsDigit(text[i])
               \/ text[i] \in {"+", "-"} /\ i = 1
               \/ text[i] = GroupSeparator /\ i > 1 /\ IsDigit(text[i - 1]),
     buff |-> SelectSeq(text, LAMBDA c : c # GroupSeparator)]

\* the number the characters of buff stand for: an optional sign, then digits
bytearrayToLongLong(buff) ==
    LET signed == buff # <<>> /\ buff[1] \in {"+", "-"}
        d == IF signed THEN Tail(buff) ELSE buff
    IN [ok |-> d # <<>> /\ \A i \in 1..Len(d) : IsDigit(d[i]),
        val |-> IF signed /\ buff[1] = "-" THEN 0 - DigitsValue(d, 0)
                ELSE DigitsValue(d, 0)]

\* QLocale.toInt succeeds: the first group separator follows one to three
\* characters of the number, every later one and the end of the text come
\* three digits after the one before, and what is left is a number
toInt_ok(text) ==
    LET seps == {i \in 1..Len(text) : text[i] = GroupSeparator}
        digits == {i \in 1..Len(text) : IsDigit(text[i])}
        before(i) == {j \in seps : j < i}
        last(S) == CHOOSE j \in S : \A k \in S : k <= j
        first(S) == CHOOSE j \in S : \A k \in S : j <= k
    IN /\ \A i \in seps :
            IF before(i) # {}
            THEN i - last(before(i)) = 4
            ELSE /\ {j \in digits : j < i} # {}
                 /\ i - first(digits) <= 3
       /\ seps # {} => Len(text) - last(seps) = 3
       /\ bytearrayToLongLong(validateChars(text).buff).ok

\* QIntValidator(b, t).validate on the text of the line edit: the empty text
\* and a lone sign are Intermediate; a value in b..t is Acceptable when
\* QLocale.toInt reads the text, otherwise Intermediate; a value above t is
\* Invalid only when it has more digits than t, otherwise Intermediate
\* (24..99 for 0..23, 60..99 for 0..59)
QIntValidator_validate(text, b, t) ==
    LET vc == validateChars(text)
        buff == vc.buff
        startsWithMinus == buff # <<>> /\ buff[1] = "-"
        startsWithPlus == buff # <<>> /\ buff[1] = "+"
        entered == bytearrayToLongLong(buff)
        buffLength == IF startsWithPlus THEN Len(buff) - 1 ELSE Len(buff)
        tLength == Len(NatStr(IF t < 0 THEN 0 - t ELSE t))
    IN IF ~vc.ok THEN "Invalid"
       ELSE IF buff = <<>> THEN "Intermediate"
       ELSE IF b >= 0 /\ startsWithMinus THEN "Invalid"
       ELSE IF t < 0 /\ startsWithPlus THEN "Invalid"
       ELSE IF Len(buff) = 1 /\ (startsWithPlus \/ startsWithMinus) THEN "Intermediate"
       ELSE IF ~entered.ok THEN "Invalid"
       ELSE IF entered.val >= b /\ entered.val <= t
       THEN (IF toInt_ok(text) THEN "Acceptable" ELSE "Intermediate")
       ELSE IF entered.val >= 0
       THEN (IF entered.val > t /\ 0 - entered.val < b /\ buffLength > tLength
             THEN "Invalid" ELSE "Intermediate")
       ELSE (IF entered.val < b THEN "Invalid" ELSE "Intermediate")

\* the line edit keeps every typed text its validator does not rate Invalid
Typeable(text, lo, hi) == QIntValidator_validate(text, lo, hi) # "Invalid"

\* QLocale.toString of an integer: decimal digits, a group separator before
\* every three digits counted from the right
RECURSIVE Grouped(_)
Grouped(d) ==
    IF Len(d) <= 3 THEN d
    ELSE Grouped(SubSeq(d, 1, Len(d) - 3)) \o <<GroupSeparator>>
           \o SubSeq(d, Len(d) - 2, Len(d))

toString(n) == IF n < 0 THEN <<"-">> \o Grouped(NatStr(0 - n)) ELSE Grouped(NatStr(n))

\* QIntValidator.fixup: a text validateChars passes and that stands for a
\* number is rewritten as that number
QIntValidator_fixup(text) ==
    IF validateChars(text).ok /\ bytearrayToLongLong(validateChars(text).buff).ok
    THEN toString(bytearrayToLongLong(validateChars(text).buff).val)
    ELSE text

\* the text of a line edit after it lost the focus: a text that is not
\* Acceptable is replaced by its fixup when that is Acceptable
fixup(text, lo, hi) ==
    IF QIntValidator_validate(text, lo, hi) = "Acceptable" THEN text
    ELSE IF QIntValidator_validate(QIntValidator_fixup(text), lo, hi) = "Acceptable"
    THEN QIntValidator_fixup(text)
    ELSE text

\* the row add_video_ui builds for file_path
add_video_ui(file_path) ==
    [video_label |-> FilmPrefix \o Basename(file_path),
     file_path |-> file_path,
     combo |-> create_time_wheels]

\* variant: every file of the dialog is appended, tracked or not
add_videos_NoMembershipTest(files, vl, rw) ==
    <<vl \o files, rw \o [i \in 1..Len(files) |-> add_video_ui(files[i])]>>

\* variant: a new file goes to the front of the list and of the rows
RECURSIVE add_videos_Prepend(_, _, _)
add_videos_Prepend(files, vl, rw) ==
    IF files = <<>> THEN <<vl, rw>>
    ELSE IF \E i \in 1..Len(vl) : vl[i] = Head(files)
    THEN add_videos_Prepend(Tail(files), vl, rw)
    ELSE add_videos_Prepend(Tail(files), <<Head(files)>> \o vl,
                            <<add_video_ui(Head(files))>> \o rw)

\* add_videos: the loop over the dialog's files, as (video_list, rows)
RECURSIVE add_videos(_, _, _)
add_videos(files, vl, rw) ==
    IF files = <<>> THEN <<vl, rw>>
    ELSE IF \E i \in 1..Len(vl) : vl[i] = Head(files)
    THEN add_videos(Tail(files), vl, rw)
    ELSE add_videos(Tail(files), Append(vl, Head(files)),
                    Append(rw, add_video_ui(Head(files))))

(***************************************************************************)
(* Extraction.                                                             *)
(***************************************************************************)
\* variant: -ss and -to given the other one's value
process_extraction_Swapped(input_file, start_time, end_time, timestamp) ==
    <<<<"ffmpeg">>, <<"-i">>, input_file, <<"-ss">>, Str(end_time),
      <<"-to">>, Str(start_time), <<"-c">>, <<"copy">>,
      OUTPUT_FOLDER \o <<"/">> \o Basename(input_file)
        \o <<"_", "c", "l", "i", "p", "_">> \o timestamp \o <<".", "m", "p", "4">>>>

\* process_extraction: the argument vector handed to subprocess.run
process_extraction(input_file, start_time, end_time, timestamp) ==
    LET filename == Basename(input_file)
        output_file == OUTPUT_FOLDER \o <<"/">> \o filename
                         \o <<"_", "c", "l", "i", "p", "_">> \o timestamp
                         \o <<".", "m", "p", "4">>
    IN <<<<"ffmpeg">>, <<"-i">>, input_file, <<"-ss">>, Str(start_time),
         <<"-to">>, Str(end_time), <<"-c">>, <<"copy">>, output_file>>

\* variant: equal times pass the range test
InvalidRange_Strict(in_time, out_time) == in_time > out_time

\* the range test of extract_video
InvalidRange(in_time, out_time) == in_time >= out_time

\* extract_video up to its first blocking call: the warning dialog, or
\* subprocess.run inside process_extraction
extract_video(row, file_path, in_hour, in_min, in_sec, out_hour, out_min, out_sec, timestamp) ==
    LET in_time == get_selected_time(in_hour, in_min, in_sec)
        out_time == get_selected_time(out_hour, out_min, out_sec)
    IN IF InvalidRange(in_time, out_time)
       THEN [row |-> row, file_path |-> file_path,
             in_time |-> in_time, out_time |-> out_time,
             argv |-> <<>>, exit |-> "none", dialog |-> "warning", closed |-> FALSE]
       ELSE [row |-> row, file_path |-> file_path,
             in_time |-> in_time, out_time |-> out_time,
             argv |-> process_extraction(file_path, in_time, out_time, timestamp),
             exit |-> "running", dialog |-> "none", closed |-> FALSE]

\* variant: the tool is started without waiting for it to end
PcOf_NoWait(rec) == IF rec.dialog = "warning" THEN "warning" ELSE "done"

\* where extract_video blocks first: the warning dialog or subprocess.run
PcOf(rec) == IF rec.dialog = "warning" THEN "warning" ELSE "ffmpeg"

\* extract_all_videos line 313-314: the path looked up from the row's label
LabelOf(row) == Replace(rows[row].video_label, FilmPrefix, <<>>)

video_path(row) ==
    IF \E i \in 1..Len(video_list) : Basename(video_list[i]) = LabelOf(row)
    THEN video_list[CHOOSE i \in 1..Len(video_list) :
                      /\ Basename(video_list[i]) = LabelOf(row)
                      /\ \A j \in 1..(i - 1) : Basename(video_list[j]) # LabelOf(row)]
    ELSE None

\* the next loop index at or after from whose row is not skipped (0: loop over)
NextRow(from) ==
    IF \E k \in from..Len(rows) : video_path(k) # None
    THEN CHOOSE k \in from..Len(rows) :
           /\ video_path(k) # None
           /\ \A j \in from..(k - 1) : video_path(j) = None
    ELSE 0

\* one iteration of the extract_all_videos loop for row k
BatchExtract(k, timestamp) ==
    LET c == rows[k].combo
    IN extract_video(k, video_path(k),
                     c[itemAt(1)], c[itemAt(3)], c[itemAt(5)],
                     c[itemAt(8)], c[itemAt(10)], c[itemAt(12)], timestamp)

\* the Extract button's lambda of row k
ButtonExtract(k, timestamp) ==
    LET c == rows[k].combo
    IN extract_video(k, rows[k].file_path,
                     c["in_hour"], c["in_min"], c["in_sec"],
                     c["out_hour"], c["out_min"], c["out_sec"], timestamp)

(***************************************************************************)
(* Inputs the environment offers.                                          *)
(***************************************************************************)
PathAX == <<"/", "a", "/", "x">>

PathBX == <<"/", "b", "/", "x">>

PathAY == <<"/", "a", "/", "y">>

\* paths the file dialog can return
Paths == {PathAX, PathBX, PathAY}

\* results of the file dialog: up to MaxPick paths, repeats allowed
FileLists == UNION {[1..n -> Paths] : n \in 0..MaxPick}

\* list items the user picks, texts the user types, quick-insert buttons pressed
ItemSamples == {1, 59}

TypingSamples == {<<>>, <<"4", "5">>, <<"9", "9">>, <<"+">>, <<"4", ",", "5">>,
                  <<"a">>, <<"1", "2", "3">>}

QuickSamples == {0, 45}

\* datetime.now().strftime("%Y%m%d_%H%M%S") at the time of the call
Timestamps == {<<"2", "0", "2", "5", "0", "2", "2", "7", "_", "1", "6", "1", "0", "0", "0">>,
               <<"2", "0", "2", "5", "1", "2", "3", "1", "_", "2", "3", "5", "9", "5", "9">>}

\* how subprocess.run can end: the tool exits with status 0, exits with a
\* non-zero status, or cannot be launched (OSError raised to the caller)
ToolOutcomes == {"exit0", "exit1", "oserror"}

(***************************************************************************)
(* The state machine.                                                      *)
(***************************************************************************)
Init ==
    /\ video_list = <<>>
    /\ rows = <<>>
    /\ current_combo = None
    /\ pc = "idle"
    /\ handler = "none"
    /\ index = 0
    /\ log = <<>>
    /\ opened = <<>>
    /\ edits = 0

\* the event loop dispatches user input only while no handler is running and
\* no modal dialog is up: subprocess.run blocks it, and a modal dialog takes
\* the input and the activation from the main window
EventLoopFree == pc = "idle"

SetLast(field, value) == [log EXCEPT ![Len(log)][field] = value]

\* the rows after the line edit of combo cc (None: no combo) lost the focus
FocusLost(rws, cc) ==
    IF cc = None THEN rws
    ELSE [rws EXCEPT ![cc[1]].combo[cc[2]] = fixup(@, min_val(cc[2]), max_val(cc[2]))]

\* the rows once the handler has opened a modal dialog (position p): the main
\* window is deactivated and the combo that has the focus loses it
DialogOpened(p) ==
    IF p \in {"file_dialog", "warning", "done"} THEN FocusLost(rows, current_combo)
    ELSE rows

\* "Add Videos" clicked: add_videos opens the file dialog
OpenFileDialog ==
    /\ EventLoopFree
    /\ handler' = "add_videos"
    /\ pc' = "file_dialog"
    /\ rows' = DialogOpened("file_dialog")
    /\ index' = 0
    /\ log' = <<>>
    /\ opened' = <<>>
    /\ UNCHANGED <<video_list, current_combo, edits>>

\* the file dialog closed with files (none when cancelled): the loop of
\* add_videos runs and the handler returns
AddVideos(files) ==
    /\ pc = "file_dialog"
    /\ Len(add_videos(files, video_list, rows)[1]) <= MaxVideos
    /\ video_list' = add_videos(files, video_list, rows)[1]
    /\ rows' = add_videos(files, video_list, rows)[2]
    /\ pc' = "idle"
    /\ handler' = "none"
    /\ UNCHANGED <<current_combo, index, log, opened, edits>>

\* FocusComboBox.focusInEvent of combo f in row r; the combo that had the
\* focus before loses it in the same focus change
focusInEvent(r, f) ==
    /\ EventLoopFree
    /\ current_combo # <<r, f>>
    /\ current_combo' = <<r, f>>
    /\ rows' = FocusLost(rows, current_combo)
    /\ UNCHANGED <<video_list, pc, handler, index, log, opened, edits>>

\* the focus leaves combo f of row r for no other time selector while no
\* handler runs: Tab, a click on a button that takes the focus, or the window
\* deactivated
focusOutEvent(r, f) ==
    /\ EventLoopFree
    /\ current_combo = <<r, f>>
    /\ rows' = FocusLost(rows, current_combo)
    /\ UNCHANGED <<video_list, current_combo, pc, handler, index, log, opened, edits>>

\* the user picks list item i in the focused combo
SelectItem(r, f, i) ==
    /\ EventLoopFree
    /\ current_combo = <<r, f>>
    /\ edits < MaxEdits
    /\ i < ItemCount(f)
    /\ rows' = [rows EXCEPT ![r].combo[f] = ItemText(f, i)]
    /\ edits' = edits + 1
    /\ UNCHANGED <<video_list, current_combo, pc, handler, index, log, opened>>

\* the user types text into the focused combo's line edit
TypeText(r, f, text) ==
    /\ EventLoopFree
    /\ current_combo = <<r, f>>
    /\ edits < MaxEdits
    /\ Typeable(text, min_val(f), max_val(f))
    /\ rows' = [rows EXCEPT ![r].combo[f] = text]
    /\ edits' = edits + 1
    /\ UNCHANGED <<video_list, current_combo, pc, handler, index, log, opened>>

\* the text handle_quick_insert leaves in a combo showing old: setCurrentText
\* of an editable combo sets the line edit's text, which no validator screens
QuickInsertText(f, old, value) == Str(value)

\* a quick-insert button clicked
handle_quick_insert(value) ==
    /\ EventLoopFree
    /\ edits < MaxEdits
    /\ IF current_combo # None
       THEN /\ rows' = [rows EXCEPT ![current_combo[1]].combo[current_combo[2]] =
                           QuickInsertText(current_combo[2], @, value)]
            /\ edits' = edits + 1
       ELSE UNCHANGED <<rows, edits>>
    /\ UNCHANGED <<video_list, current_combo, pc, handler, index, log, opened>>

\* the Extract button of row r clicked
ExtractClicked(r, timestamp) ==
    /\ EventLoopFree
    /\ handler' = "extract_video"
    /\ index' = 0
    /\ log' = <<ButtonExtract(r, timestamp)>>
    /\ pc' = PcOf(ButtonExtract(r, timestamp))
    /\ rows' = DialogOpened(PcOf(ButtonExtract(r, timestamp)))
    /\ opened' = <<>>
    /\ UNCHANGED <<video_list, current_combo, edits>>

\* "Extract All Videos" clicked: the loop runs to its first blocking call
ExtractAllClicked(timestamp) ==
    /\ EventLoopFree
    /\ handler' = "extract_all_videos"
    /\ index' = NextRow(1)
    /\ opened' = <<>>
    /\ IF NextRow(1) = 0
       THEN log' = <<>> /\ pc' = "returned" /\ rows' = rows
       ELSE /\ log' = <<BatchExtract(NextRow(1), timestamp)>>
            /\ pc' = PcOf(BatchExtract(NextRow(1), timestamp))
            /\ rows' = DialogOpened(PcOf(BatchExtract(NextRow(1), timestamp)))
    /\ UNCHANGED <<video_list, current_combo, edits>>

\* what follows a tool that ended with outcome: a launch failure raises out of
\* the handler, any exit status leads to the modal "Done" dialog
AfterTool(outcome) == IF outcome = "oserror" THEN "raised" ELSE "done"

\* subprocess.run returns or raises
ToolExit(outcome) ==
    /\ pc = "ffmpeg"
    /\ pc' = AfterTool(outcome)
    /\ log' = [log EXCEPT ![Len(log)].exit = outcome,
                          ![Len(log)].dialog = IF AfterTool(outcome) = "done"
                                               THEN "done" ELSE "none"]
    /\ rows' = DialogOpened(AfterTool(outcome))
    /\ UNCHANGED <<video_list, current_combo, handler, index, opened, edits>>

\* the loop index extract_all_videos goes on with after row k's extract_video
\* returned (0: the handler is over)
LoopAfter(k) == IF handler = "extract_all_videos" THEN NextRow(k + 1) ELSE 0

\* the user closes the message box; extract_video returns to its caller
DismissDialog(timestamp) ==
    /\ pc \in {"warning", "done"}
    /\ index' = LoopAfter(index)
    /\ IF LoopAfter(index) = 0
       THEN /\ log' = SetLast("closed", TRUE)
            /\ pc' = "returned"
            /\ rows' = rows
       ELSE /\ log' = Append(SetLast("closed", TRUE), BatchExtract(LoopAfter(index), timestamp))
            /\ pc' = PcOf(BatchExtract(LoopAfter(index), timestamp))
            /\ rows' = DialogOpened(PcOf(BatchExtract(LoopAfter(index), timestamp)))
    /\ UNCHANGED <<video_list, current_combo, handler, opened, edits>>

\* the Play button of row r clicked: QDesktopServices.openUrl
play_video(r) ==
    /\ EventLoopFree
    /\ handler' = "play_video"
    /\ opened' = <<rows[r].file_path>>
    /\ pc' = "returned"
    /\ index' = 0
    /\ log' = <<>>
    /\ UNCHANGED <<video_list, rows, current_combo, edits>>

\* the handler has returned: control is back in app.exec_()
Return ==
    /\ pc = "returned"
    /\ pc' = "idle"
    /\ handler' = "none"
    /\ index' = 0
    /\ log' = <<>>
    /\ opened' = <<>>
    /\ UNCHANGED <<video_list, rows, current_combo, edits>>

\* an exception left the slot and the binding's hook only reports it
UnhandledReported ==
    /\ pc = "raised"
    /\ pc' = "idle"
    /\ handler' = "none"
    /\ index' = 0
    /\ log' = <<>>
    /\ opened' = <<>>
    /\ UNCHANGED <<video_list, rows, current_combo, edits>>

\* an exception left the slot and the binding aborts the process
UnhandledAbort ==
    /\ pc = "raised"
    /\ pc' = "aborted"
    /\ UNCHANGED <<video_list, rows, current_combo, handler, index, log, opened, edits>>

Next ==
    \/ OpenFileDialog
    \/ \E files \in FileLists : AddVideos(files)
    \/ \E r \in 1..Len(rows), f \in Fields : focusInEvent(r, f)
    \/ \E r \in 1..Len(rows), f \in Fields : focusOutEvent(r, f)
    \/ \E r \in 1..Len(rows), f \in Fields, i \in ItemSamples : SelectItem(r, f, i)
    \/ \E r \in 1..Len(rows), f \in Fields, text \in TypingSamples : TypeText(r, f, text)
    \/ \E value \in QuickSamples : handle_quick_insert(value)
    \/ \E r \in 1..Len(rows), timestamp \in Timestamps : ExtractClicked(r, timestamp)
    \/ \E timestamp \in Timestamps : ExtractAllClicked(timestamp)
    \/ \E outcome \in ToolOutcomes : ToolExit(outcome)
    \/ \E timestamp \in Timestamps : DismissDialog(timestamp)
    \/ \E r \in 1..Len(rows) : play_video(r)
    \/ Return
    \/ UnhandledReported
    \/ UnhandledAbort

Spec == Init /\ [][Next]_vars

(***************************************************************************)
(* A session of one row whose six selectors already hold texts the user    *)
(* can leave in them (list items, typed text, quick-inserted values), and  *)
(* the extraction handlers on it.                                          *)
(***************************************************************************)
SelectorSamples(f) == {ItemText(f, 0), ItemText(f, 1), <<>>, Str(45)}

NextExtract ==
    \/ \E r \in 1..Len(rows), timestamp \in Timestamps : ExtractClicked(r, timestamp)
    \/ \E timestamp \in Timestamps : ExtractAllClicked(timestamp)
    \/ \E outcome \in ToolOutcomes : ToolExit(outcome)
    \/ \E timestamp \in Timestamps : DismissDialog(timestamp)
    \/ Return
    \/ UnhandledReported
    \/ UnhandledAbort

InitOneRow(c) ==
    /\ video_list = <<PathAX>>
    /\ rows = <<[add_video_ui(PathAX) EXCEPT !.combo = c]>>
    /\ current_combo = None
    /\ pc = "idle"
    /\ handler = "none"
    /\ index = 0
    /\ log = <<>>
    /\ opened = <<>>
    /\ edits = 0

InitSel == \E c \in [Fields -> UNION {SelectorSamples(f) : f \in Fields}] :
              /\ \A f \in Fields : c[f] \in SelectorSamples(f)
              /\ InitOneRow(c)

SpecSel == InitSel /\ [][NextExtract]_vars

(***************************************************************************)
(* get_selected_time as a function of arbitrary combo texts: the IN        *)
(* selectors hold any of the argument samples.                             *)
(***************************************************************************)
ArgumentSamples == {<<"0", "1">>, <<"0", "2">>, <<"0", "3">>, <<>>, <<"a">>,
                    <<" ", "7">>, <<"-", "1">>, <<"1", "_", "0">>, <<"+">>,
                    <<"1", ",">>}

InitTime == \E h \in ArgumentSamples, m \in ArgumentSamples, s \in ArgumentSamples,
               oh \in {ItemText("out_hour", 0), ItemText("out_hour", 23)},
               os \in {ItemText("out_sec", 0), ItemText("out_sec", 59)} :
              InitOneRow([create_time_wheels EXCEPT !["in_hour"] = h, !["in_min"] = m,
                             !["in_sec"] = s, !["out_hour"] = oh, !["out_sec"] = os])

SpecTime == InitTime /\ [][NextExtract]_vars

(***************************************************************************)
(* A session of two rows whose OUT hours the user has already set, so that *)
(* one "Extract All Videos" can start the tool for both; every input of    *)
(* the window stays available.                                             *)
(***************************************************************************)
OutHourSamples == {ItemText("out_hour", 0), ItemText("out_hour", 1)}

InitBatch ==
    \E oh1 \in OutHourSamples, oh2 \in OutHourSamples :
        /\ video_list = <<PathAX, PathAY>>
        /\ rows = <<[add_video_ui(PathAX) EXCEPT !.combo["out_hour"] = oh1],
                    [add_video_ui(PathAY) EXCEPT !.combo["out_hour"] = oh2]>>
        /\ current_combo = None
        /\ pc = "idle"
        /\ handler = "none"
        /\ index = 0
        /\ log = <<>>
        /\ opened = <<>>
        /\ edits = 0

SpecBatch == InitBatch /\ [][Next]_vars

(***************************************************************************)
(* Reference values for the claims.                                        *)
(***************************************************************************)
\* the integer Python's int() gives for each sample text, 0 where it raises
ExpectedInt(t) ==
    CASE t = <<"0", "0">> -> 0
      [] t = <<"0", "1">> -> 1
      [] t = <<"0", "2">> -> 2
      [] t = <<"0", "3">> -> 3
      [] t = <<"2", "3">> -> 23
      [] t = <<"5", "9">> -> 59
      [] t = <<"4", "5">> -> 45
      [] t = <<"9", "9">> -> 99
      [] t = <<"0">> -> 0
      [] t = <<" ", "7">> -> 7
      [] t = <<"-", "1">> -> 0 - 1
      [] t = <<"1", "_", "0">> -> 10
      [] t = <<>> -> 0
      [] t = <<"a">> -> 0
      [] t = <<"+">> -> 0
      [] t = <<"1", ",">> -> 0
      [] t = <<"4", ",", "5">> -> 0

\* the IN and OUT seconds the selectors of the row of log entry k stand for
SelectedIn(k) ==
    LET c == rows[log[k].row].combo
    IN ExpectedInt(c["in_hour"]) * 3600 + ExpectedInt(c["in_min"]) * 60
         + ExpectedInt(c["in_sec"])

SelectedOut(k) ==
    LET c == rows[log[k].row].combo
    IN ExpectedInt(c["out_hour"]) * 3600 + ExpectedInt(c["out_min"]) * 60
         + ExpectedInt(c["out_sec"])

NoDuplicates(seq) == \A i, j \in 1..Len(seq) : seq[i] = seq[j] => i = j

BatchOver == pc = "returned" /\ handler = "extract_all_videos"

(***************************************************************************)
(* C1: whenever the selected IN time is not below the selected OUT time,   *)
(* extract_video shows the invalid-range warning, never starts the         *)
(* external tool and never shows "Done" for that call.                     *)
(***************************************************************************)
C1_InvalidRangeRejected ==
    \A k \in 1..Len(log) :
        SelectedIn(k) >= SelectedOut(k) =>
            /\ log[k].dialog = "warning"
            /\ log[k].argv = <<>>
            /\ log[k].exit = "none"

C1_Witness ==
    /\ pc = "returned"
    /\ handler = "extract_video"
    /\ Len(log) = 1
    /\ SelectedIn(1) = SelectedOut(1)
    /\ SelectedIn(1) > 0
    /\ log[1].dialog = "warning"
    /\ log[1].closed

(***************************************************************************)
(* C2: whenever the selected IN time is below the selected OUT time, one   *)
(* extract_video call starts the external tool once, with the row's path   *)
(* as input, -ss the IN seconds, -to the OUT seconds as decimal integers,  *)
(* and -c copy.                                                            *)
(***************************************************************************)
C2_ValidRangeInvokesTool ==
    /\ handler = "extract_video" => Len(log) = 1
    /\ \A k \in 1..Len(log) :
        SelectedIn(k) < SelectedOut(k) =>
            /\ log[k].exit # "none"
            /\ Len(log[k].argv) = 10
            /\ log[k].argv[1] = <<"ffmpeg">>
            /\ log[k].argv[2] = <<"-i">>
            /\ log[k].argv[3] = rows[log[k].row].file_path
            /\ log[k].argv[4] = <<"-ss">>
            /\ ~PyInt(log[k].argv[5]).raised
            /\ PyInt(log[k].argv[5]).val = SelectedIn(k)
            /\ log[k].argv[6] = <<"-to">>
            /\ ~PyInt(log[k].argv[7]).raised
            /\ PyInt(log[k].argv[7]).val = SelectedOut(k)
            /\ log[k].argv[8] = <<"-c">>
            /\ log[k].argv[9] = <<"copy">>

C2_Witness ==
    /\ pc = "returned"
    /\ handler = "extract_video"
    /\ Len(log) = 1
    /\ SelectedIn(1) = 61
    /\ SelectedOut(1) = 3600
    /\ log[1].exit = "exit0"
    /\ log[1].dialog = "done"

(***************************************************************************)
(* C8: get_selected_time gives h*3600 + m*60 + s of the integer values of  *)
(* the three texts, a text int() refuses counting as 0; 01:02:03 gives     *)
(* 3723.                                                                   *)
(***************************************************************************)
C8_SelectedTime ==
    \A k \in 1..Len(log) :
        LET c == rows[log[k].row].combo
        IN /\ log[k].in_time = SelectedIn(k)
           /\ log[k].out_time = SelectedOut(k)
           /\ (c["in_hour"] = <<"0", "1">> /\ c["in_min"] = <<"0", "2">>
                 /\ c["in_sec"] = <<"0", "3">>) => log[k].in_time = 3723
           /\ (c["in_hour"] = <<"a">> /\ c["in_min"] = <<>>
                 /\ c["in_sec"] = <<"+">>) => log[k].in_time = 0

C8_Witness ==
    /\ Len(log) = 1
    /\ rows[1].combo["in_hour"] = <<"a">>
    /\ rows[1].combo["in_min"] = <<"0", "2">>
    /\ rows[1].combo["in_sec"] = <<>>
    /\ log[1].in_time = 120
    /\ log[1].out_time = 82859
    /\ log[1].exit = "running"

(***************************************************************************)
(* C3: when extract_all_videos is over, extract_video has been called once *)
(* for every tracked path, in order, with that path and the times selected *)
(* in that path's own row.                                                 *)
(***************************************************************************)
C3_BatchCoversEveryEntry ==
    BatchOver =>
        /\ Len(log) = Len(video_list)
        /\ \A i \in 1..Len(log) :
            /\ log[i].file_path = video_list[i]
            /\ log[i].row = i
            /\ log[i].in_time = SelectedIn(i)
            /\ log[i].out_time = SelectedOut(i)

\* the selectors of row i give an IN time below the OUT time
EntryValid(i) ==
    LET c == rows[i].combo
    IN get_selected_time(c["in_hour"], c["in_min"], c["in_sec"])
         < get_selected_time(c["out_hour"], c["out_min"], c["out_sec"])

(***************************************************************************)
(* C4: when extract_all_videos is over and some entry had an invalid       *)
(* range, every other entry with a valid range has had the external tool   *)
(* started on its path.                                                    *)
(***************************************************************************)
C4_BatchSurvivesInvalidEntry ==
    (BatchOver /\ \E k \in 1..Len(rows) : ~EntryValid(k)) =>
        \A j \in 1..Len(rows) :
            EntryValid(j) =>
                \E n \in 1..Len(log) :
                    /\ log[n].exit # "none"
                    /\ log[n].argv[3] = video_list[j]

(***************************************************************************)
(* C5: whatever way the external tool fails, extract_video goes on to the  *)
(* "Done" dialog.                                                          *)
(***************************************************************************)
C5_ToolFailureUnobserved ==
    \A k \in 1..Len(log) :
        log[k].exit \in {"exit1", "oserror"} => log[k].dialog = "done"

(***************************************************************************)
(* C7: the hour, minute and second every selector stands for stay within   *)
(* 0..23, 0..59 and 0..59, and every time handed to extract_video is at    *)
(* most 86399 seconds.                                                     *)
(***************************************************************************)
C7_SelectorsInRange ==
    /\ \A r \in 1..Len(rows) : \A f \in Fields :
          /\ safe_int(rows[r].combo[f]) >= min_val(f)
          /\ safe_int(rows[r].combo[f]) <= max_val(f)
    /\ \A k \in 1..Len(log) :
          /\ log[k].in_time <= 86399
          /\ log[k].out_time <= 86399

C9_OneAtATime ==
    /\ Cardinality({k \in 1..Len(log) : log[k].exit = "running"}) <= 1
    /\ \A k \in 1..(Len(log) - 1) :
          /\ log[k].exit # "running"
          /\ log[k].closed
          /\ log[k].row < log[k + 1].row
    /\ pc = "ffmpeg" <=> (log # <<>> /\ log[Len(log)].exit = "running")

\* between the start and the end of a handler no input of the user is
\* handled: no other handler starts, no path is added, no file is opened, no
\* selector is edited or focused; the rows change at most by the focused
\* combo losing the focus to the handler's own dialog
C9_NoInterleaving ==
    (pc # "idle" /\ pc' # "idle") =>
        /\ UNCHANGED <<video_list, current_combo, edits, handler, opened>>
        /\ rows' \in {rows, FocusLost(rows, current_combo)}
        /\ Len(log') >= Len(log)
        /\ \A k \in 1..(Len(log) - 1) : log'[k] = log[k]

(***************************************************************************)
(* C9: extract_all_videos works row by row: only the newest extract_video  *)
(* call can have the tool running or its dialog open, rows are taken in    *)
(* the order of the list, and while a handler runs no input of the user is *)
(* handled and no other handler starts.                                    *)
(***************************************************************************)
C9_BatchIsSequential == []C9_OneAtATime /\ [][C9_NoInterleaving]_vars

\* the tool runs for row 2 after the run for row 1 ended and its dialog closed
C9_Witness ==
    /\ handler = "extract_all_videos"
    /\ Len(log) = 2
    /\ log[1].exit = "exit1"
    /\ log[1].dialog = "done"
    /\ log[1].closed
    /\ log[2].row = 2
    /\ log[2].exit = "running"
    /\ pc = "ffmpeg"

\* one row per tracked path, row i built for path i
RowsMatchList(vl, rw) ==
    /\ Len(rw) = Len(vl)
    /\ \A i \in 1..Len(vl) :
          /\ rw[i].file_path = vl[i]
          /\ rw[i].video_label = FilmPrefix \o Basename(vl[i])

\* the handlers behind Extract, Extract All Videos and Play
ExtractHandlers == {"extract_video", "extract_all_videos", "play_video"}

\* a step of one of these handlers
HandlerStep == handler \in ExtractHandlers \/ handler' \in ExtractHandlers

C10_Step ==
    /\ IsPrefix(video_list, video_list')
    /\ RowsMatchList(video_list, rows)
    /\ RowsMatchList(video_list', rows')
    /\ HandlerStep =>
          /\ video_list' = video_list
          /\ rows' = rows

(***************************************************************************)
(* C10 as stated: every step leaves the tracked list unchanged or extends  *)
(* it at its end; there is one row per tracked path, row i built for path  *)
(* i; and the steps of extract_video, extract_all_videos and play_video    *)
(* change neither the list nor any row's selectors.                        *)
(***************************************************************************)
C10_AppendOnly == [][C10_Step]_vars

C10_StepAmended ==
    /\ IsPrefix(video_list, video_list')
    /\ RowsMatchList(video_list, rows)
    /\ RowsMatchList(video_list', rows')
    /\ HandlerStep =>
          /\ video_list' = video_list
          /\ rows' \in {rows, FocusLost(rows, current_combo)}
          /\ rows' # rows => pc' \in {"warning", "done"}
          /\ \A r \in 1..Len(rows) : \A f \in Fields :
                rows'[r].combo[f] # rows[r].combo[f] =>
                    /\ current_combo = <<r, f>>
                    /\ GroupSeparator \in {rows[r].combo[f][i] : i \in 1..Len(rows[r].combo[f])}
                    /\ rows'[r].combo[f] = SelectSeq(rows[r].combo[f],
                                                     LAMBDA c : c # GroupSeparator)

(***************************************************************************)
(* C10, amended: every step leaves the tracked list unchanged or extends   *)
(* it at its end; there is one row per tracked path, row i built for path  *)
(* i; the steps of extract_video, extract_all_videos and play_video leave  *)
(* the list unchanged, and change no selector except that the step which   *)
(* opens the warning or "Done" dialog makes the focused selector lose the  *)
(* focus, which can rewrite a text with group separators as its number.    *)
(***************************************************************************)
C10_AppendOnlyAmended == [][C10_StepAmended]_vars

\* extract_video read OUT minute "4,5" as 0 and warned; its dialog made the
\* focused box rewrite the text to "45"
C10_Witness ==
    /\ pc = "warning"
    /\ handler = "extract_video"
    /\ current_combo = <<1, "out_min">>
    /\ log[1].in_time = 0
    /\ log[1].out_time = 0
    /\ rows[1].combo["out_min"] = <<"4", "5">>

====
